---- MODULE Spec2Model ----
(***************************************************************************)
(* httm: resolution of a live path to its dataset, to the search          *)
(* directories under the hidden snapshot directory, enumeration of the    *)
(* snapshot versions (lookup.rs) and detection of deleted files           *)
(* (deleted.rs).                                                           *)
(*                                                                         *)
(* A path is the sequence of its components (the root directory is <<>>); *)
(* a dataset name is the sequence of its characters. A Result is a record *)
(* with ok = TRUE and val, or ok = FALSE and err. Where the code's result *)
(* depends on the order of a parallel iterator or of a hash map, the      *)
(* operator yields the set of results the code can produce.               *)
(***************************************************************************)
EXTENDS Integers, Sequences, FiniteSets, TLC

VARIABLES config, pathdata, path_data, fs, live, op, arg, ret

vars == <<config, pathdata, path_data, fs, live, op, arg, ret>>

(***************************************************************************)
(* Bounds                                                                  *)
(***************************************************************************)
\* longest mount table of the resolution specification
MaxMounts == 2
\* most snapshots under one hidden snapshot directory (get_versions)
MaxSnaps == 3

\* path components; their string lengths differ
Names == {"a", "bb"}
\* every path of at most n components
PathsUpTo(n) == UNION {[1..k -> Names] : k \in 0..n}
\* mount points of the tables: the root, nested and sibling directories
MountPoints == {<<>>, <<"a">>, <<"a", "bb">>, <<"bb">>}
\* dataset names: "r", its replicas "tr" and "dr" (equally long), and "ttr"
DatasetNames == {<<"r">>, <<"t", "r">>, <<"d", "r">>, <<"t", "t", "r">>}
\* requested paths of the resolution specification
FilePaths == PathsUpTo(3)
\* modification times and sizes of the probed entries
Times == {1, 2, 3}
Sizes == {1, 2}

(***************************************************************************)
(* Results and errors                                                      *)
(***************************************************************************)
Ok(v) == [ok |-> TRUE, val |-> v]
Err(e) == [ok |-> FALSE, err |-> e]

\* lookup.rs:225 "Could not identify any qualifying dataset..."
NoQualifyingDataset == "NoQualifyingDataset"
\* lookup.rs:157,165,170 "httm was unable to detect an alternate replicated mount point..."
NoAlternateReplica == "NoAlternateReplica"
\* lookup.rs:115,122 "Are you sure you're in the correct working directory?..."
PathNotUnderSnapshotRoot == "PathNotUnderSnapshotRoot"
\* lookup.rs:69 "Neither a live copy, nor a snapshot copy of such a file appears to exist..."
NoVersionsFound == "NoVersionsFound"
\* the std::io::Error of a failed read_dir, propagated with ?
IoError == "IoError"

(***************************************************************************)
(* std::path                                                               *)
(***************************************************************************)
\* Path::starts_with: component by component
starts_with(path, base) ==
    /\ Len(base) <= Len(path)
    /\ \A i \in 1..Len(base) : path[i] = base[i]

\* Path::strip_prefix
strip_prefix(path, base) ==
    IF starts_with(path, base)
    THEN Ok(SubSeq(path, Len(base) + 1, Len(path)))
    ELSE Err("StripPrefixError")

\* Path::parent: None for the root directory
parent(path) ==
    IF path = <<>> THEN Err("None") ELSE Ok(SubSeq(path, 1, Len(path) - 1))

\* Path::join of a relative path
join(path, rel) == path \o rel

\* String::len of a mount point: "/" for the root, "/c1/c2" otherwise
RECURSIVE str_len(_)
str_len(path) ==
    IF path = <<>> THEN 0 ELSE 1 + Len(Head(path)) + str_len(Tail(path))

mount_len(mount) == IF mount = <<>> THEN 1 ELSE str_len(mount)

\* str::ends_with on dataset names
ends_with(s, suffix) ==
    /\ Len(suffix) <= Len(s)
    /\ SubSeq(s, Len(s) - Len(suffix) + 1, Len(s)) = suffix

\* Range of a sequence
Range(s) == {s[i] : i \in DOMAIN s}

(***************************************************************************)
(* lookup.rs: get_immediate_dataset                                        *)
(***************************************************************************)
\* a mutation: the shortest qualifying mount point
shortest_potential_mountpoint(potential_mountpoints) ==
    CHOOSE m \in potential_mountpoints :
        \A o \in potential_mountpoints : mount_len(m) <= mount_len(o)

\* max_by_key(|x| x.len()) over the qualifying mount points
best_potential_mountpoint(potential_mountpoints) ==
    CHOOSE m \in potential_mountpoints :
        \A o \in potential_mountpoints : mount_len(m) >= mount_len(o)

get_immediate_dataset(pd, mount_collection) ==
    LET file_path == pd.path_buf
        p == parent(file_path)
        parent_folder == IF p.ok THEN p.val ELSE <<>>
        potential_mountpoints ==
            {mount_collection[i][2] : i \in
                {j \in DOMAIN mount_collection :
                    starts_with(parent_folder, mount_collection[j][2])}}
    IN  IF potential_mountpoints = {}
        THEN Err(NoQualifyingDataset)
        ELSE Ok(best_potential_mountpoint(potential_mountpoints))

(***************************************************************************)
(* lookup.rs: get_alt_replicated_dataset                                   *)
(***************************************************************************)
\* the HashMap from mount to fs: a later row of the table replaces an earlier one
unique_mounts(mount_collection) ==
    LET mounts == {mount_collection[i][2] : i \in DOMAIN mount_collection}
        last(m) == CHOOSE i \in DOMAIN mount_collection :
                      /\ mount_collection[i][2] = m
                      /\ \A j \in DOMAIN mount_collection :
                            mount_collection[j][2] = m => j <= i
    IN  [m \in mounts |-> mount_collection[last(m)][1]]

\* a mutation: the longest match is returned even when it is the input
alt_replicated_result_unchecked(alt_replicated_mount, immediate_dataset_snap_mount) ==
    Ok(<<alt_replicated_mount, immediate_dataset_snap_mount>>)

\* lines 156-162: the longest match is no alternate when it is the input itself
alt_replicated_result(alt_replicated_mount, immediate_dataset_snap_mount) ==
    IF alt_replicated_mount = immediate_dataset_snap_mount
    THEN Err(NoAlternateReplica)
    ELSE Ok(<<alt_replicated_mount, immediate_dataset_snap_mount>>)

\* the results the code can produce: max_by_key over a parallel iterator of a
\* hash map yields any one of the equally long matches
get_alt_replicated_dataset(immediate_dataset_snap_mount, mount_collection) ==
    LET um == unique_mounts(mount_collection)
    IN  IF immediate_dataset_snap_mount \notin DOMAIN um
        THEN {Err(NoAlternateReplica)}
        ELSE LET immediate_dataset_fs_name == um[immediate_dataset_snap_mount]
                 matches == {m \in DOMAIN um :
                                ends_with(um[m], immediate_dataset_fs_name)}
                 longest == {m \in matches :
                                \A o \in matches : Len(um[m]) >= Len(um[o])}
             IN  IF matches = {}
                 THEN {Err(NoAlternateReplica)}
                 ELSE {alt_replicated_result(m, immediate_dataset_snap_mount) :
                          m \in longest}

(***************************************************************************)
(* lookup.rs: get_search_dirs                                              *)
(***************************************************************************)
\* SnapPoint
Native(mount_collection) == [kind |-> "Native", mounts |-> mount_collection]
UserDefined(snap_dir, local_dir) ==
    [kind |-> "UserDefined", snap_dir |-> snap_dir, local_dir |-> local_dir]

\* the hidden snapshot directory of a dataset
hidden_snapshot_dir(dataset) == join(dataset, <<".zfs", "snapshot">>)

\* a mutation: the relative path is taken below the searched dataset
local_path_of_dataset(snap_point, file_path, dataset, immediate_dataset_snap_mount) ==
    LET stripped == IF snap_point.kind = "UserDefined"
                    THEN strip_prefix(file_path, snap_point.local_dir)
                    ELSE strip_prefix(file_path, dataset)
    IN  IF stripped.ok THEN stripped ELSE Err(PathNotUnderSnapshotRoot)

\* lines 112-124: the path below local_dir, or below the immediate mount point
local_path(snap_point, file_path, dataset, immediate_dataset_snap_mount) ==
    LET stripped == IF snap_point.kind = "UserDefined"
                    THEN strip_prefix(file_path, snap_point.local_dir)
                    ELSE strip_prefix(file_path, immediate_dataset_snap_mount)
    IN  IF stripped.ok THEN stripped ELSE Err(PathNotUnderSnapshotRoot)

\* lines 86-105: the results of choosing (dataset, immediate_dataset_snap_mount)
search_datasets(cfg, file_pathdata, for_alt_replicated) ==
    IF cfg.snap_point.kind = "UserDefined"
    THEN {Ok(<<cfg.snap_point.snap_dir, cfg.snap_point.snap_dir>>)}
    ELSE LET imm == get_immediate_dataset(file_pathdata, cfg.snap_point.mounts)
         IN  IF ~imm.ok
             THEN {imm}
             ELSE IF for_alt_replicated
                  THEN get_alt_replicated_dataset(imm.val, cfg.snap_point.mounts)
                  ELSE {Ok(<<imm.val, imm.val>>)}

\* the results the code can produce
get_search_dirs(cfg, file_pathdata, for_alt_replicated) ==
    {IF ~d.ok
     THEN d
     ELSE LET lp == local_path(cfg.snap_point, file_pathdata.path_buf,
                               d.val[1], d.val[2])
          IN  IF ~lp.ok THEN lp
              ELSE Ok(<<hidden_snapshot_dir(d.val[1]), lp.val>>)
     : d \in search_datasets(cfg, file_pathdata, for_alt_replicated)}

(***************************************************************************)
(* PathData                                                                *)
(***************************************************************************)
\* a probe of a path: an entry with its metadata, or a phantom
PathData(path_buf, system_time, size, is_phantom) ==
    [path_buf |-> path_buf, system_time |-> system_time, size |-> size,
     is_phantom |-> is_phantom]

\* the phantom of a path that does not resolve: UNIX_EPOCH and no length
Phantom(path_buf) == PathData(path_buf, 0, 0, TRUE)

(***************************************************************************)
(* The filesystem below the hidden snapshot directories                    *)
(*                                                                         *)
(* fs maps a hidden snapshot directory to the sequence of its snapshots,   *)
(* or to Unreadable; a snapshot maps a relative path to its node: a file   *)
(* with its metadata, or a directory with its entries. A path outside the  *)
(* domains does not exist.                                                 *)
(***************************************************************************)
Unreadable == [readable |-> FALSE]
Readable(snapshots) == [readable |-> TRUE, snapshots |-> snapshots]

FileNode(system_time, size) ==
    [kind |-> "file", system_time |-> system_time, size |-> size]
\* entries maps the file names of the directory to their metadata
DirNode(system_time, size, entries) ==
    [kind |-> "dir", system_time |-> system_time, size |-> size,
     entries |-> entries]

\* the name of the i-th snapshot directory
SnapName(i) == "s" \o ToString(i)

\* std::fs::read_dir of a hidden snapshot directory: the indices of its snapshots
read_dir(filesystem, hidden) ==
    IF hidden \in DOMAIN filesystem /\ filesystem[hidden].readable
    THEN Ok(DOMAIN filesystem[hidden].snapshots)
    ELSE Err(IoError)

\* PathData::from of the copy of local_path in the i-th snapshot
probe(filesystem, hidden, i, rel) ==
    LET snapshot == filesystem[hidden].snapshots[i]
        path == join(join(hidden, <<SnapName(i)>>), rel)
    IN  IF rel \in DOMAIN snapshot
        THEN PathData(path, snapshot[rel].system_time, snapshot[rel].size, FALSE)
        ELSE Phantom(path)

\* the orders in which a parallel iterator or a hash map can yield a set
Orderings(S) == {s \in [1..Cardinality(S) -> S] : Range(s) = S}

\* the (system_time, size) key of the hash maps
fingerprint(pd) == <<pd.system_time, pd.size>>

\* HashMap::insert of every element in turn: the last one of a key stays
unique_by_fingerprint(seq) ==
    LET keys == {fingerprint(seq[i]) : i \in DOMAIN seq}
        last(k) == CHOOSE i \in DOMAIN seq :
                      /\ fingerprint(seq[i]) = k
                      /\ \A j \in DOMAIN seq : fingerprint(seq[j]) = k => j <= i
    IN  {seq[last(k)] : k \in keys}

\* a mutation: sorted by size
par_sort_unstable_by_size(values) ==
    {s \in Orderings(values) :
        \A i, j \in DOMAIN s : i < j => s[i].size <= s[j].size}

\* par_sort_unstable_by_key(|pathdata| pathdata.system_time) of the values of a
\* hash map: every order of them that ascends by system_time
par_sort_unstable_by_key(values) ==
    {s \in Orderings(values) :
        \A i, j \in DOMAIN s : i < j => s[i].system_time <= s[j].system_time}

(***************************************************************************)
(* lookup.rs: get_versions                                                 *)
(***************************************************************************)
\* the results the code can produce
get_versions(filesystem, search_dirs) ==
    LET hidden == search_dirs[1]
        rel == search_dirs[2]
        entries == read_dir(filesystem, hidden)
    IN  IF ~entries.ok
        THEN {Err(IoError)}
        ELSE LET versions == {pd \in {probe(filesystem, hidden, i, rel) :
                                         i \in entries.val} : ~pd.is_phantom}
             IN  UNION {{Ok(sorted) :
                           sorted \in par_sort_unstable_by_key(
                                          unique_by_fingerprint(order))} :
                        order \in Orderings(versions)}

(***************************************************************************)
(* lookup.rs: lookup_exec                                                  *)
(***************************************************************************)
\* Result::ok and flatten of one search: its versions, and none when
\* get_search_dirs or get_versions failed
snaps_of_search(cfg, pd, for_alt_replicated, filesystem) ==
    UNION {IF ~search_dirs.ok
           THEN {<<>>}
           ELSE {IF versions.ok THEN versions.val ELSE <<>> :
                    versions \in get_versions(filesystem, search_dirs.val)}
           : search_dirs \in get_search_dirs(cfg, pd, for_alt_replicated)}

\* lines 30-57: the searches of one requested path, the replicated one first
snaps_of_path(cfg, pd, filesystem) ==
    IF cfg.opt_alt_replicated
    THEN {alt \o imm : alt \in snaps_of_search(cfg, pd, TRUE, filesystem),
                       imm \in snaps_of_search(cfg, pd, FALSE, filesystem)}
    ELSE snaps_of_search(cfg, pd, FALSE, filesystem)

\* the versions found for each requested path, in the order of the paths
RECURSIVE snaps_by_path(_, _, _)
snaps_by_path(cfg, pds, filesystem) ==
    IF pds = <<>>
    THEN {<<>>}
    ELSE {<<h>> \o t : h \in snaps_of_path(cfg, Head(pds), filesystem),
                       t \in snaps_by_path(cfg, Tail(pds), filesystem)}

\* collect() of the flattened versions
RECURSIVE flatten(_)
flatten(seqs) == IF seqs = <<>> THEN <<>> ELSE Head(seqs) \o flatten(Tail(seqs))

\* lines 59-75, given the versions found for each path
lookup_result(cfg, pds, by_path) ==
    LET all_snaps == flatten(by_path)
        live_versions == IF ~cfg.opt_no_live_vers THEN pds ELSE <<>>
    IN  IF all_snaps = <<>> /\ \A i \in DOMAIN live_versions : live_versions[i].is_phantom
        THEN Err(NoVersionsFound)
        ELSE Ok(<<all_snaps, live_versions>>)

(***************************************************************************)
(* deleted.rs: get_deleted_per_dataset                                     *)
(*                                                                         *)
(* The live directory is Unreadable, or Readable with the set of its file  *)
(* names.                                                                  *)
(***************************************************************************)
\* lines 124-134: the entries of the copies of the directory in the snapshots; a
\* snapshot without the directory adds none
snap_files(filesystem, hidden, rel) ==
    UNION {LET snapshot == filesystem[hidden].snapshots[i]
           IN  IF rel \in DOMAIN snapshot /\ snapshot[rel].kind = "dir"
               THEN {[file_name |-> n,
                      path |-> join(join(join(hidden, <<SnapName(i)>>), rel), <<n>>),
                      system_time |-> snapshot[rel].entries[n].system_time,
                      size |-> snapshot[rel].entries[n].size] :
                        n \in DOMAIN snapshot[rel].entries}
               ELSE {}
           : i \in DOMAIN filesystem[hidden].snapshots}

\* lines 137-140: the HashMap from file name to entry, filled in the order of a
\* parallel iterator: any one entry of a name can be the last inserted
unique_snap_filenames(files) ==
    LET names == {f.file_name : f \in files}
    IN  {m \in [names -> files] : \A n \in names : m[n].file_name = n}

\* the results the code can produce
get_deleted_per_dataset(path, search_dirs, filesystem, live_dir) ==
    LET hidden == search_dirs[1]
        rel == search_dirs[2]
    IN  IF ~live_dir.readable \/ ~read_dir(filesystem, hidden).ok
        THEN {Err(IoError)}
        ELSE LET local_unique_filenames == live_dir.names
                 deleted_pathdata(m) ==
                     {PathData(m[n].path, m[n].system_time, m[n].size, FALSE) :
                         n \in DOMAIN m \ local_unique_filenames}
             IN  UNION {UNION {{Ok(sorted) :
                                  sorted \in par_sort_unstable_by_key(
                                                 unique_by_fingerprint(order))} :
                               order \in Orderings(deleted_pathdata(m))} :
                        m \in unique_snap_filenames(snap_files(filesystem, hidden, rel))}

(***************************************************************************)
(* deleted.rs: get_deleted                                                 *)
(***************************************************************************)
\* flat_map and flatten of one dataset: its deleted entries, and none when
\* get_search_dirs or get_deleted_per_dataset failed; get_search_dirs reads only
\* the path_buf of PathData::from(path)
deleted_of_search(cfg, path, for_alt_replicated, filesystem, live_dir) ==
    UNION {IF ~search_dirs.ok
           THEN {<<>>}
           ELSE {IF deleted.ok THEN deleted.val ELSE <<>> :
                    deleted \in get_deleted_per_dataset(path, search_dirs.val,
                                                        filesystem, live_dir)}
           : search_dirs \in get_search_dirs(cfg, Phantom(path), for_alt_replicated)}

\* the results the code can produce: with opt_alt_replicated the values of a hash
\* map, in any order
get_deleted(cfg, path, filesystem, live_dir) ==
    IF cfg.opt_alt_replicated
    THEN UNION {{Ok(unique_deleted) :
                   unique_deleted \in Orderings(unique_by_fingerprint(imm \o alt))} :
                imm \in deleted_of_search(cfg, path, FALSE, filesystem, live_dir),
                alt \in deleted_of_search(cfg, path, TRUE, filesystem, live_dir)}
    ELSE {Ok(imm) : imm \in deleted_of_search(cfg, path, FALSE, filesystem, live_dir)}

(***************************************************************************)
(* Resolution: the inputs and one action per function                      *)
(***************************************************************************)
\* mount tables: rows (fs, mount)
MountRows == DatasetNames \X MountPoints
MountTables(n) == UNION {[1..k -> MountRows] : k \in 0..n}

NoConfig == [snap_point |-> Native(<<>>), opt_alt_replicated |-> FALSE,
             opt_no_live_vers |-> FALSE]

InitResolve ==
    /\ \E t \in MountTables(MaxMounts) :
          config = [snap_point |-> Native(t), opt_alt_replicated |-> FALSE,
                    opt_no_live_vers |-> FALSE]
    /\ \E p \in FilePaths : pathdata = PathData(p, 1, 1, FALSE)
    /\ path_data = <<>>
    /\ fs = <<>>
    /\ live = <<>>
    /\ op = "init"
    /\ arg = <<>>
    /\ ret = <<>>

GetImmediateDataset ==
    /\ op = "init"
    /\ op' = "get_immediate_dataset"
    /\ arg' = <<>>
    /\ ret' = get_immediate_dataset(pathdata, config.snap_point.mounts)
    /\ UNCHANGED <<config, pathdata, path_data, fs, live>>

GetAltReplicatedDataset ==
    /\ op = "init"
    /\ \E m \in MountPoints :
          /\ arg' = m
          /\ ret' \in get_alt_replicated_dataset(m, config.snap_point.mounts)
    /\ op' = "get_alt_replicated_dataset"
    /\ UNCHANGED <<config, pathdata, path_data, fs, live>>

GetSearchDirs ==
    /\ op = "init"
    /\ \E for_alt_replicated \in BOOLEAN :
          /\ arg' = for_alt_replicated
          /\ ret' \in get_search_dirs(config, pathdata, for_alt_replicated)
    /\ op' = "get_search_dirs"
    /\ UNCHANGED <<config, pathdata, path_data, fs, live>>

NextResolve == GetImmediateDataset \/ GetAltReplicatedDataset \/ GetSearchDirs

SpecResolve == InitResolve /\ [][NextResolve]_vars

(***************************************************************************)
(* Properties of the resolution                                            *)
(***************************************************************************)
\* m is a path-prefix of p: p is m followed by further components
PathPrefix(m, p) == \E k \in 0..Len(p) : SubSeq(p, 1, k) = m

\* s is a string suffix of t
IsSuffix(s, t) == \E k \in 0..Len(t) : SubSeq(t, k + 1, Len(t)) = s

\* the parent directory of the requested path; the root is its own parent
ParentDir == IF pathdata.path_buf = <<>> THEN <<>>
             ELSE SubSeq(pathdata.path_buf, 1, Len(pathdata.path_buf) - 1)

TableRows == Range(config.snap_point.mounts)
TableMounts == {r[2] : r \in TableRows}

\* the mount points of the table that prefix the parent directory
Qualifying == {m \in TableMounts : PathPrefix(m, ParentDir)}

\* m is a longest qualifying mount point
LongestQualifying(m) ==
    /\ m \in Qualifying
    /\ \A o \in Qualifying : Len(o) <= Len(m)

\* the rows of the reverse index: for each mount point, its last row of the table
IndexRows ==
    LET t == config.snap_point.mounts
    IN  {t[i] : i \in {j \in DOMAIN t : \A k \in DOMAIN t : t[k][2] = t[j][2] => k <= j}}

\* the rows of the reverse index whose dataset name ends with that of mount point m
SuffixRows(m) ==
    {e \in IndexRows : \E a \in IndexRows : a[2] = m /\ IsSuffix(a[1], e[1])}

\* e is a longest row among the suffix rows of m
LongestSuffixRow(e, m) ==
    /\ e \in SuffixRows(m)
    /\ \A o \in SuffixRows(m) : Len(o[1]) <= Len(e[1])

\* alt is an alternate replica of m: another mount point, of a longest suffix row
IsAlternate(alt, m) ==
    /\ alt # m
    /\ \E e \in IndexRows : e[2] = alt /\ LongestSuffixRow(e, m)

\* C1: get_immediate_dataset returns a mount point of the table that prefixes the
\* parent directory of the path and is the longest such, and fails, with
\* NoQualifyingDataset, exactly when no mount point of the table prefixes it.
C1_ImmediateDatasetIsLongestPrefix ==
    op = "get_immediate_dataset" =>
        /\ ret.ok => LongestQualifying(ret.val)
        /\ ~ret.ok <=> Qualifying = {}
        /\ ~ret.ok => ret.err = NoQualifyingDataset

\* nested mount points qualify and the deeper one is returned
C1_Witness ==
    /\ op = "get_immediate_dataset"
    /\ ret.ok
    /\ Cardinality(Qualifying) >= 2
    /\ Len(ret.val) = 2

\* C5: get_alt_replicated_dataset never returns the input mount point: a success is
\* another mount point, of a row of the reverse index whose dataset name ends with
\* the input's and is the longest such; it fails, with NoAlternateReplica, when the
\* input is absent from the reverse index, and otherwise only when the input's own
\* row is a longest match.
C5_AlternateIsNeverTheInput ==
    op = "get_alt_replicated_dataset" =>
        /\ ret.ok => /\ ret.val[1] # arg
                     /\ IsAlternate(ret.val[1], arg)
                     /\ ret.val[2] = arg
        /\ arg \notin TableMounts => ~ret.ok
        /\ ~ret.ok => /\ ret.err = NoAlternateReplica
                      /\ \/ arg \notin TableMounts
                         \/ \E e \in IndexRows : e[2] = arg /\ LongestSuffixRow(e, arg)
        /\ (\A e \in IndexRows : LongestSuffixRow(e, arg) => e[2] = arg) => ~ret.ok

\* a replica with a longer dataset name is returned for a mount point of the table
C5_Witness ==
    /\ op = "get_alt_replicated_dataset"
    /\ ret.ok
    /\ arg \in TableMounts
    /\ ret.val[1] # arg
    /\ Cardinality(SuffixRows(arg)) >= 2

\* C6: a path equal to a mount point of the table resolves: get_search_dirs of
\* the immediate dataset succeeds.
C6_MountPointPathResolves ==
    (/\ op = "get_search_dirs"
     /\ arg = FALSE
     /\ pathdata.path_buf \in TableMounts) => ret.ok

\* C7: in Native mode get_search_dirs succeeds in the immediate pass whenever the
\* dataset resolves, never fails with PathNotUnderSnapshotRoot, and returns the
\* hidden snapshot directory of the searched dataset (the alternate replica in the
\* alternate pass) with the path below the immediate mount point, so that the
\* immediate mount point joined with the relative path is the live path.
C7_RelativePathIsBelowImmediateMount ==
    op = "get_search_dirs" =>
        /\ ret.ok =>
              \E imm \in Qualifying :
                 /\ LongestQualifying(imm)
                 /\ imm \o ret.val[2] = pathdata.path_buf
                 /\ \E dataset \in TableMounts :
                       /\ ret.val[1] = dataset \o <<".zfs", "snapshot">>
                       /\ IF arg THEN IsAlternate(dataset, imm) ELSE dataset = imm
        /\ ~ret.ok => ret.err \in {NoQualifyingDataset, NoAlternateReplica}
        /\ (Qualifying # {} /\ arg = FALSE) => ret.ok

\* the alternate pass succeeds below a mount point that is not the root
C7_Witness ==
    /\ op = "get_search_dirs"
    /\ arg = TRUE
    /\ ret.ok
    /\ ret.val[2] # <<>>
    /\ Len(ret.val[1]) > 2 + Len(pathdata.path_buf) - Len(ret.val[2])

(***************************************************************************)
(* Version enumeration: get_versions of one search directory               *)
(***************************************************************************)
\* the nodes of a probed file: absent, or a file with its metadata
ProbedNodes == {FileNode(t, s) : t \in Times, s \in Sizes}

\* a snapshot that holds the file at rel, or not
SnapshotsOf(rel) ==
    {<<>>} \cup {[r \in {rel} |-> n] : n \in ProbedNodes}

\* the snapshots of a hidden snapshot directory, or Unreadable
SnapshotRoots(rel, n) ==
    {Unreadable} \cup {Readable(s) : s \in UNION {[1..k -> SnapshotsOf(rel)] : k \in 0..n}}

InitVersions ==
    /\ config = NoConfig
    /\ pathdata = <<>>
    /\ path_data = <<>>
    /\ \E dataset \in {<<>>, <<"a">>} : \E rel \in {<<"a">>, <<"a", "bb">>} :
          /\ arg = <<hidden_snapshot_dir(dataset), rel>>
          /\ \E root \in SnapshotRoots(rel, MaxSnaps) :
                fs = [h \in {hidden_snapshot_dir(dataset)} |-> root]
    /\ live = <<>>
    /\ op = "init"
    /\ ret = <<>>

GetVersions ==
    /\ op = "init"
    /\ op' = "get_versions"
    /\ ret' \in get_versions(fs, arg)
    /\ UNCHANGED <<config, pathdata, path_data, fs, live, arg>>

NextVersions == GetVersions

SpecVersions == InitVersions /\ [][NextVersions]_vars

\* the snapshots of the searched directory that hold the file
SearchedSnapshots == fs[arg[1]].snapshots

HoldingSnapshots ==
    {i \in DOMAIN SearchedSnapshots : arg[2] \in DOMAIN SearchedSnapshots[i]}

\* the fingerprints of the copies of the file
CopyFingerprints ==
    {<<SearchedSnapshots[i][arg[2]].system_time, SearchedSnapshots[i][arg[2]].size>> :
        i \in HoldingSnapshots}

\* C2: whatever the order of traversal, get_versions returns no phantom, only
\* copies of the file in the snapshots, exactly one for each distinct
\* (modification time, size) among the copies, in ascending order of modification
\* time: the fingerprints returned are decided by the filesystem alone.
C2_VersionsAreUniqueAndSorted ==
    (op = "get_versions" /\ ret.ok) =>
        /\ \A k \in DOMAIN ret.val :
              /\ ~ret.val[k].is_phantom
              /\ \E i \in HoldingSnapshots :
                    /\ ret.val[k].path_buf = arg[1] \o <<SnapName(i)>> \o arg[2]
                    /\ ret.val[k].system_time = SearchedSnapshots[i][arg[2]].system_time
                    /\ ret.val[k].size = SearchedSnapshots[i][arg[2]].size
        /\ {<<ret.val[k].system_time, ret.val[k].size>> : k \in DOMAIN ret.val}
              = CopyFingerprints
        /\ Len(ret.val) = Cardinality(CopyFingerprints)
        /\ \A k \in 1..(Len(ret.val) - 1) :
              ret.val[k].system_time <= ret.val[k + 1].system_time

\* two snapshots hold the same version, a third one another, and one none
C2_Witness ==
    /\ op = "get_versions"
    /\ ret.ok
    /\ Len(ret.val) = 2
    /\ ret.val[1].size > ret.val[2].size
    /\ Cardinality(HoldingSnapshots) = 3

(***************************************************************************)
(* Lookup: lookup_exec of the requested paths                              *)
(***************************************************************************)
\* most requested paths of one lookup
MaxPaths == 2
\* most snapshots under one hidden snapshot directory of a lookup
LookupSnaps == 1

\* two datasets, "r" and its replica "tr", mounted side by side
LookupMounts == {<<"a">>, <<"bb">>}
LookupRows == {<<"r">>, <<"t", "r">>} \X LookupMounts
\* mount tables that list each dataset and each mount point once
LookupTables ==
    {t \in UNION {[1..k -> LookupRows] : k \in 0..MaxMounts} :
        \A i, j \in DOMAIN t : i # j => (t[i][1] # t[j][1] /\ t[i][2] # t[j][2])}
LookupSnapPoints ==
    {Native(t) : t \in LookupTables}
        \cup {UserDefined(sd, ld) : sd \in LookupMounts, ld \in LookupMounts}

\* the requested file, below either mount point, live or not
LookupPathData ==
    {PathData(m \o <<"a">>, 3, 1, FALSE) : m \in LookupMounts}
        \cup {Phantom(m \o <<"a">>) : m \in LookupMounts}

\* a snapshot holds the file below the mount point, or not
LookupSnapshots ==
    {<<>>} \cup {[r \in {<<"a">>} |-> FileNode(t, 1)] : t \in {1, 2}}
LookupRoots ==
    {Unreadable} \cup
        {Readable(s) : s \in UNION {[1..k -> LookupSnapshots] : k \in 0..LookupSnaps}}

InitLookup ==
    /\ \E sp \in LookupSnapPoints : \E alt \in BOOLEAN : \E no_live \in BOOLEAN :
          config = [snap_point |-> sp, opt_alt_replicated |-> alt,
                    opt_no_live_vers |-> no_live]
    /\ pathdata = <<>>
    /\ \E pds \in UNION {[1..k -> LookupPathData] : k \in 0..MaxPaths} :
          path_data = pds
    /\ \E roots \in [{hidden_snapshot_dir(m) : m \in LookupMounts} -> LookupRoots] :
          fs = roots
    /\ live = <<>>
    /\ op = "init"
    /\ arg = <<>>
    /\ ret = <<>>

\* arg keeps all_snaps as found for each requested path
LookupExec ==
    /\ op = "init"
    /\ op' = "lookup_exec"
    /\ \E by_path \in snaps_by_path(config, path_data, fs) :
          /\ arg' = by_path
          /\ ret' = lookup_result(config, path_data, by_path)
    /\ UNCHANGED <<config, pathdata, path_data, fs, live>>

NextLookup == LookupExec

SpecLookup == InitLookup /\ [][NextLookup]_vars

\* C4: lookup_exec fails, with NoVersionsFound, exactly when the live probe of every
\* requested path is phantom and no snapshot version was found for any of them, and
\* returns [snapshot_versions, live_versions] otherwise, whatever the options.
C4_FailsIffNothingExists ==
    op = "lookup_exec" =>
        /\ ~ret.ok <=> /\ \A i \in DOMAIN path_data : path_data[i].is_phantom
                       /\ \A i \in DOMAIN arg : arg[i] = <<>>
        /\ ~ret.ok => ret.err = NoVersionsFound
        /\ ret.ok => Len(ret.val) = 2

\* C9: with opt_alt_replicated the snapshot versions returned for a requested path
\* never hold two entries of the same (modification time, size).
C9_MergedVersionsAreUnique ==
    (op = "lookup_exec" /\ config.opt_alt_replicated) =>
        \A p \in DOMAIN arg : \A i, j \in DOMAIN arg[p] :
           (arg[p][i].system_time = arg[p][j].system_time
               /\ arg[p][i].size = arg[p][j].size) => i = j

\* the searches lookup_exec makes for a requested path
Searches == IF config.opt_alt_replicated THEN {TRUE, FALSE} ELSE {FALSE}

\* the failures a search of the requested path p can end with
SearchFailures(p, for_alt_replicated) ==
    UNION {IF ~sd.ok
           THEN {sd.err}
           ELSE {v.err : v \in {w \in get_versions(fs, sd.val) : ~w.ok}}
           : sd \in get_search_dirs(config, path_data[p], for_alt_replicated)}

\* C10: when the dataset resolution or the listing of the snapshot root of a
\* search of lookup_exec fails, the caller is returned an error: the failure is
\* never turned into a successful result with the versions of that search missing.
C10_SearchFailureIsSurfaced ==
    op = "lookup_exec" =>
        LET causes == UNION {SearchFailures(p, f) :
                               p \in DOMAIN path_data, f \in Searches}
        IN  causes # {} => ~ret.ok

(***************************************************************************)
(* Deleted files of one dataset: get_deleted_per_dataset                   *)
(***************************************************************************)
\* most snapshots under the hidden snapshot directory of the searched dataset
DeletedSnaps == 2

\* file names of the directory, live or in a snapshot
FileNames == {"a", "c", "d"}

\* the metadata of an entry
EntryData == {[system_time |-> t, size |-> 1] : t \in {1, 2}}

\* the copies a snapshot can hold of a directory with these file names
DirNodes(names) ==
    {DirNode(1, 1, e) : e \in UNION {[ns -> EntryData] : ns \in SUBSET names}}

\* the snapshots of a hidden snapshot directory: each holds the directory at rel, or
\* not
DirRoots(rel, names, n) ==
    LET snapshots == {<<>>} \cup {[r \in {rel} |-> d] : d \in DirNodes(names)}
    IN  {Unreadable} \cup
            {Readable(s) : s \in UNION {[1..k -> snapshots] : k \in 0..n}}

LiveDirs(names) == {Unreadable} \cup {[readable |-> TRUE, names |-> ns] : ns \in SUBSET names}

InitDeletedPerDataset ==
    /\ config = NoConfig
    /\ pathdata = <<>>
    /\ path_data = <<"a">>
    /\ arg = <<hidden_snapshot_dir(<<>>), <<"a">>>>
    /\ \E root \in DirRoots(<<"a">>, FileNames, DeletedSnaps) :
          fs = [h \in {hidden_snapshot_dir(<<>>)} |-> root]
    /\ \E l \in LiveDirs(FileNames) : live = l
    /\ op = "init"
    /\ ret = <<>>

\* path_data is the live directory and arg its search directories
GetDeletedPerDataset ==
    /\ op = "init"
    /\ op' = "get_deleted_per_dataset"
    /\ ret' \in get_deleted_per_dataset(path_data, arg, fs, live)
    /\ UNCHANGED <<config, pathdata, path_data, fs, live, arg>>

NextDeletedPerDataset == GetDeletedPerDataset

SpecDeletedPerDataset == InitDeletedPerDataset /\ [][NextDeletedPerDataset]_vars

\* the file names of the copies of the directory in the snapshots
SnapshotFileNames ==
    UNION {DOMAIN fs[arg[1]].snapshots[i][arg[2]].entries :
             i \in {j \in DOMAIN fs[arg[1]].snapshots :
                       arg[2] \in DOMAIN fs[arg[1]].snapshots[j]}}

\* the file name of an entry
FileNameOf(pd) == pd.path_buf[Len(pd.path_buf)]

\* C3: the file names of the entries get_deleted_per_dataset returns are exactly
\* those of some snapshot's copy of the directory that the live directory lacks,
\* each of them once, whatever the metadata of the entries.
C3_DeletedNamesAreTheDifference ==
    (op = "get_deleted_per_dataset" /\ ret.ok) =>
        /\ {FileNameOf(ret.val[k]) : k \in DOMAIN ret.val}
              = SnapshotFileNames \ live.names
        /\ \A i, j \in DOMAIN ret.val :
              FileNameOf(ret.val[i]) = FileNameOf(ret.val[j]) => i = j

(***************************************************************************)
(* Deleted files: get_deleted of a live directory                          *)
(***************************************************************************)
\* most snapshots under one hidden snapshot directory of get_deleted
ReplicaSnaps == 1

InitDeleted ==
    /\ \E sp \in LookupSnapPoints : \E alt \in BOOLEAN :
          config = [snap_point |-> sp, opt_alt_replicated |-> alt,
                    opt_no_live_vers |-> FALSE]
    /\ pathdata = <<>>
    /\ \E m \in LookupMounts : path_data = m \o <<"a">>
    /\ \E roots \in [{hidden_snapshot_dir(m) : m \in LookupMounts} ->
                        DirRoots(<<"a">>, {"c", "d"}, ReplicaSnaps)] :
          fs = roots
    /\ \E l \in LiveDirs({"c", "d"}) : live = l
    /\ op = "init"
    /\ arg = <<>>
    /\ ret = <<>>

\* path_data is the live directory
GetDeleted ==
    /\ op = "init"
    /\ op' = "get_deleted"
    /\ ret' \in get_deleted(config, path_data, fs, live)
    /\ UNCHANGED <<config, pathdata, path_data, fs, live, arg>>

NextDeleted == GetDeleted

SpecDeleted == InitDeleted /\ [][NextDeleted]_vars

\* C8: the sequence get_deleted returns ascends by modification time and holds no
\* two entries of the same (modification time, size), with one dataset in scope
\* and with the alternate replica merged in.
C8_DeletedAreSortedAndUnique ==
    (op = "get_deleted" /\ ret.ok) =>
        /\ \A k \in 1..(Len(ret.val) - 1) :
              ret.val[k].system_time <= ret.val[k + 1].system_time
        /\ \A i, j \in DOMAIN ret.val :
              (ret.val[i].system_time = ret.val[j].system_time
                  /\ ret.val[i].size = ret.val[j].size) => i = j

====
